---- MODULE Spec2Model ----
(***************************************************************************)
(* A model of dbmanager: the test-fixture helper that merges per-call      *)
(* overrides onto per-relation default values and makes sure a matching    *)
(* record exists, either by check-then-insert inside a transaction         *)
(* (ResolveTestRecord of package main) or by a single                      *)
(* INSERT ... ON CONFLICT DO NOTHING (Create).                             *)
(*                                                                         *)
(* Go maps are reference values, so RelationValues live in a heap of maps  *)
(* addressed by Addr; the dbManager's table and each call's local          *)
(* `values` hold addresses.  The database (PostgreSQL behind database/sql) *)
(* is the environment: every call into it may fail, and its unique         *)
(* constraint is enforced on insert.                                       *)
(***************************************************************************)
EXTENDS Integers, Sequences, FiniteSets, Bags, TLC

\* ---------------------------------------------------------------- bounds
MaxCalls == 2      \* calls made by one caller
MaxOpts  == 2      \* overrides passed to one call
MaxConcOpts == 1   \* overrides passed to each of two concurrent calls

\* ------------------------------------------------------------ data model
Main  == "p1"
Procs == {"p1", "p2"}

Tables  == {"users", "orders"}
Columns == {"id", "name", "created_at"}
Null    == "NULL"
Now     == "t1"                      \* what CURRENT_TIMESTAMP evaluates to

\* A field value is a literal scalar or an sq.Sqlizer (sq.Expr(...)).
Lit(v)       == <<"lit", v>>
Expr(e)      == <<"expr", e>>
IsSqlizer(v) == v[1] = "expr"

NoValues == [k \in {} |-> Lit(Null)]

\* The tables handed to New / NewTestDBManager.
DefaultTables ==
  { [r \in {"users"} |-> [k \in {"id", "name", "created_at"} |->
        CASE k = "id"   -> Lit("u1")
          [] k = "name" -> Lit("Alice")
          [] OTHER      -> Expr("CURRENT_TIMESTAMP")]],
    [r \in {"users"} |-> [k \in {"name", "created_at"} |->
        IF k = "name" THEN Lit("Alice") ELSE Expr("CURRENT_TIMESTAMP")]] }

\* The overrides a caller builds with SetFieldValue(f, v).
Options == { <<"id", Lit("u2")>>, <<"name", Lit("Bob")>>,
             <<"name", Expr("upper('bob')")>> }

RECURSIVE SeqsUpTo(_, _)
SeqsUpTo(S, n) ==
  IF n = 0 THEN {<<>>}
  ELSE LET shorter == SeqsUpTo(S, n - 1)
       IN  shorter \cup {Append(s, x) : s \in {t \in shorter : Len(t) = n - 1}, x \in S}

OptSeqs == SeqsUpTo(Options, MaxOpts)

Row(i, n, c) == [k \in Columns |-> CASE k = "id" -> i [] k = "name" -> n [] OTHER -> c]

\* Database contents a test may start from (users.id carries a unique constraint).
InitialUsers ==
  { EmptyBag,
    SetToBag({Row("u1", "Bob", "t0")}),
    SetToBag({Row("u2", "Alice", "t0")}) }

VARIABLES
  defaultValues,          \* the table passed to New, by value (never changes)
  heap,                   \* Addr -> RelationValues: the Go maps alive
  defaultRelationValues,  \* dbManager.defaultRelationValues: relation -> Addr
  db,                     \* committed rows: table -> bag of rows
  pc,                     \* per caller: where its call stands
  call,                   \* per caller: [op, tableName, opts] of the call
  values,                 \* per caller: the local `values` (an Addr)
  tx,                     \* per caller: state of the call's *sql.Tx
  pending,                \* per caller: rows written in the open transaction
  err,                    \* per caller: the local `err`
  ops,                    \* per caller: database operations executed by the call
  report,                 \* per caller: the t.Fatalf format and arguments
  pre,                    \* per caller: db when the call started
  last,                   \* per caller: summary of its previous call
  ncalls                  \* per caller: calls started

vars == <<defaultValues, heap, defaultRelationValues, db, pc, call, values, tx,
          pending, err, ops, report, pre, last, ncalls>>

DefaultAddr(r) == <<"default", r>>
CallAddr(p)    == <<"call", p>>
NoAddr         == <<"nil", "nil">>
NoCall         == [op |-> "none", tableName |-> "", opts |-> <<>>]
NoReport       == [fmt |-> "", args |-> <<>>]
NoLast         == [op |-> "none", tableName |-> "", values |-> NoValues,
                   outcome |-> "none", inserted |-> FALSE, envFailed |-> FALSE]

\* ------------------------------------------------------- value resolution
\* Mutant: a field that is already set keeps its value.
SetFieldValueKeepFirst(m, f, v) ==
  [k \in DOMAIN m \cup {f} |-> IF k \in DOMAIN m THEN m[k] ELSE v]

\* SetFieldValue(f, v)(values): values[f] = v
SetFieldValue(m, f, v) ==
  [k \in DOMAIN m \cup {f} |-> IF k = f THEN v ELSE m[k]]

\* for _, opt := range opts { opt(defaultVal) }
RECURSIVE ApplyOpts(_, _)
ApplyOpts(m, opts) ==
  IF opts = <<>> THEN m
  ELSE ApplyOpts(SetFieldValue(m, Head(opts)[1], Head(opts)[2]), Tail(opts))

\* defaultValue, ok := dbMan.defaultRelationValues[relationName]
\* (a missing key yields the nil map, which ranges as the empty map)
LookupDefaults(relationName) ==
  IF relationName \in DOMAIN defaultRelationValues
  THEN [ok |-> TRUE, value |-> heap[defaultRelationValues[relationName]]]
  ELSE [ok |-> FALSE, value |-> NoValues]

\* Mutant: the `ok` of the lookup is ignored.
NeverMissing(relationName) == FALSE

\* if !ok { dbMan.t.Fatalf(...) }
MissingDefaults(relationName) == ~LookupDefaults(relationName).ok

\* Mutant: the stored map itself is returned, not a copy.
getDefaultRelationValuesAlias(p, relationName) ==
  [heap |-> heap, addr |-> defaultRelationValues[relationName]]

\* Mutant: every call fills one scratch map kept by the manager.
getDefaultRelationValuesShared(p, relationName) ==
  [heap |-> [a \in DOMAIN heap \cup {<<"call", "shared">>} |->
               IF a = <<"call", "shared">> THEN LookupDefaults(relationName).value
               ELSE heap[a]],
   addr |-> <<"call", "shared">>]

\* values := make(RelationValues); for k, v := range defaultValue { values[k] = v }
\* The result is the heap after the allocation and the address returned.
getDefaultRelationValues(p, relationName) ==
  [heap |-> [a \in DOMAIN heap \cup {CallAddr(p)} |->
               IF a = CallAddr(p) THEN LookupDefaults(relationName).value
               ELSE heap[a]],
   addr |-> CallAddr(p)]

\* The Default Value Table as the manager holds it now.
StoredDefaults == [r \in DOMAIN defaultRelationValues |-> heap[defaultRelationValues[r]]]

\* The map a caller's `values` points to (empty before it is computed).
ValuesOf(p) == IF values[p] = NoAddr THEN NoValues ELSE heap[values[p]]

\* ------------------------------------------------------------ the database
UniqueColumn == "id"                  \* users.id is unique; NULLs never conflict

\* What the database stores for a value of the insert's column list.
Eval(v) == IF IsSqlizer(v)
           THEN (IF v[2] = "CURRENT_TIMESTAMP" THEN Now ELSE "BOB")
           ELSE v[2]

\* INSERT INTO t (cols of vals) VALUES (...): columns left out are NULL.
\* Mutant: the insert reuses the filter of the existence check and so leaves
\* the expression-valued fields out of the new row.
InsertedRowLiteralsOnly(vals) ==
  [c \in Columns |-> IF c \in DOMAIN vals /\ ~IsSqlizer(vals[c])
                     THEN vals[c][2] ELSE Null]

InsertedRow(vals) ==
  [c \in Columns |-> IF c \in DOMAIN vals THEN Eval(vals[c]) ELSE Null]

RECURSIVE PendingBag(_, _)
PendingBag(writes, t) ==
  IF writes = <<>> THEN EmptyBag
  ELSE (IF Head(writes)[1] = t THEN SetToBag({Head(writes)[2]}) ELSE EmptyBag)
       (+) PendingBag(Tail(writes), t)

\* Rows a statement of caller p sees: committed rows and its own writes.
Visible(p, t) == db[t] (+) PendingBag(pending[p], t)

Conflicts(rows, row) ==
  /\ row[UniqueColumn] # Null
  /\ \E r \in BagToSet(rows) : r[UniqueColumn] = row[UniqueColumn]

\* An insert waits while another open transaction holds the same key uncommitted.
Blocked(p, t, row) ==
  \E q \in Procs \ {p} : tx[q] = "open" /\ Conflicts(PendingBag(pending[q], t), row)

\* Mutant: expression values are kept in the filter.
parseSelectValuesKeepAll(originalValues) == originalValues

\* for k, v := range originalValues { if _, ok := v.(sq.Sqlizer); !ok { values[k] = v } }
parseSelectValues(originalValues) ==
  [k \in {f \in DOMAIN originalValues : ~IsSqlizer(originalValues[f])} |->
     originalValues[k]]

\* WHERE sq.Eq(selectValues): col = $n for every key of the map.
Matches(row, selectValues) ==
  \A k \in DOMAIN selectValues : row[k] = selectValues[k][2]

MatchCount(rows, selectValues) ==
  LET hit == {r \in BagToSet(rows) : Matches(r, selectValues)}
      RECURSIVE Sum(_)
      Sum(S) == IF S = {} THEN 0
                ELSE LET r == CHOOSE x \in S : TRUE IN CopiesIn(r, rows) + Sum(S \ {r})
  IN  Sum(hit)

\* Mutant: a query without a filter is taken to return no row.
QueryRowScanNeedsFilter(rows, selectValues) ==
  IF DOMAIN selectValues # {} /\ MatchCount(rows, selectValues) > 0
  THEN "nil" ELSE "ErrNoRows"

\* SELECT FROM t WHERE ... LIMIT 1 then row.Scan(): nil when a row came back.
QueryRowScan(rows, selectValues) ==
  IF MatchCount(rows, selectValues) > 0 THEN "nil" ELSE "ErrNoRows"

AddAll(bags, writes) == [t \in DOMAIN bags |-> bags[t] (+) PendingBag(writes, t)]

Op(name, res) == [op |-> name, res |-> res]
Fatal(fmt, args) == [fmt |-> fmt, args |-> args]

\* ----------------------------------------------------------------- actions
\* Entry of a call: values := dbMan.relationValues(tableName, opts...), up to the
\* return of getDefaultRelationValues (t.Fatalf ends the calling goroutine).
Enter(p, op, tableName, opts) ==
  /\ pc[p] = "idle"
  /\ ncalls[p] < MaxCalls
  /\ ncalls' = [ncalls EXCEPT ![p] = @ + 1]
  /\ call' = [call EXCEPT ![p] = [op |-> op, tableName |-> tableName, opts |-> opts]]
  /\ pre' = [pre EXCEPT ![p] = db]
  /\ IF ~MissingDefaults(tableName)
     THEN LET got == getDefaultRelationValues(p, tableName)
          IN  /\ heap' = got.heap
              /\ values' = [values EXCEPT ![p] = got.addr]
              /\ pc' = [pc EXCEPT ![p] = "opts"]
              /\ report' = [report EXCEPT ![p] = NoReport]
     ELSE /\ pc' = [pc EXCEPT ![p] = "fatal"]
          /\ UNCHANGED <<heap, values>>
          /\ report' = [report EXCEPT ![p] =
                          Fatal("no default values for relation '%s'", <<tableName>>)]
  /\ UNCHANGED <<defaultValues, defaultRelationValues, db, tx, pending, err, ops, last>>

ResolveTestRecord(p, tableName, opts) == Enter(p, "ResolveTestRecord", tableName, opts)

Create(p, tableName, opts) == Enter(p, "Create", tableName, opts)

\* ResolveTestRecord of package dbmanager, the variant without a transaction.
dbmanagerResolveTestRecord(p, tableName, opts) ==
  Enter(p, "dbmanager.ResolveTestRecord", tableName, opts)

\* The loop of relationValues over opts, and the return into the caller.
relationValues(p) ==
  /\ pc[p] = "opts"
  /\ heap' = [heap EXCEPT ![values[p]] = ApplyOpts(@, call[p].opts)]
  /\ pc' = [pc EXCEPT ![p] =
       CASE call[p].op = "Create"                      -> "create"
         [] call[p].op = "dbmanager.ResolveTestRecord" -> "resolve"
         [] OTHER                                      -> "begin"]
  /\ UNCHANGED <<defaultValues, defaultRelationValues, db, call, values, tx, pending,
                 err, ops, report, pre, last, ncalls>>

\* Mutant: the error of db.Begin() is reported but the call goes on.
AfterBeginGoesOn(e) == "check"

\* if err != nil { dbMan.t.Fatalf(...) } after db.Begin(): Fatalf ends the call
AfterBegin(e) == IF e # "nil" THEN "fatal" ELSE "check"

\* tx, err := dbMan.db.Begin()   (opts is not read from here on)
Begin(p) ==
  /\ pc[p] = "begin"
  /\ \E e \in {"nil", "conn_err"} :
       /\ err' = [err EXCEPT ![p] = e]
       /\ ops' = [ops EXCEPT ![p] = Append(@, Op("Begin", e))]
       /\ IF e = "nil"
          THEN /\ tx' = [tx EXCEPT ![p] = "open"]
               /\ UNCHANGED report
          ELSE /\ report' = [report EXCEPT ![p] =
                    Fatal("Test setup failed: could not start transaction: %s", <<e>>)]
               /\ UNCHANGED tx
       /\ pc' = [pc EXCEPT ![p] = AfterBegin(e)]
  /\ call' = [call EXCEPT ![p].opts = <<>>]
  /\ UNCHANGED <<defaultValues, heap, defaultRelationValues, db, values, pending,
                 pre, last, ncalls>>

\* Mutant: the insert is attempted whether or not a row was found.
AfterCheckAlwaysInsert(e) ==
  IF e \in {"ErrNoRows", "nil"} THEN "insert" ELSE "rollback_check"

\* Mutant: a failed check ends the call without the rollback.
AfterCheckNoRollback(e) ==
  CASE e = "ErrNoRows" -> "insert"
    [] e # "nil"       -> "fatal"
    [] OTHER           -> "commit"

\* Mutant: "no rows" is taken for "found".
AfterCheckNeverInsert(e) ==
  IF e \in {"ErrNoRows", "nil"} THEN "commit" ELSE "rollback_check"

\* Mutant: a found row is treated as a failure of the check.
AfterCheckFoundRollsBack(e) ==
  IF e = "ErrNoRows" THEN "insert" ELSE "rollback_check"

\* Mutant: a failed check starts the call over.
AfterCheckRetries(e) ==
  CASE e = "ErrNoRows" -> "insert"
    [] e # "nil"       -> "begin"
    [] OTHER           -> "commit"

\* switch { case err == sql.ErrNoRows: ... case err != nil: ... default: ... }
AfterCheck(e) ==
  CASE e = "ErrNoRows" -> "insert"
    [] e # "nil"       -> "rollback_check"
    [] OTHER           -> "commit"

\* err = dbMan.checkIfExisting(tx, tableName, values)
checkIfExisting(p) ==
  /\ pc[p] = "check"
  /\ LET selectValues == parseSelectValues(ValuesOf(p))
     IN \/ \* builder.ToSql() fails: no statement is sent
           /\ err' = [err EXCEPT ![p] = "build_err"]
           /\ UNCHANGED ops
        \/ \* tx.QueryRow / row.Scan fails
           /\ err' = [err EXCEPT ![p] = "conn_err"]
           /\ ops' = [ops EXCEPT ![p] = Append(@, Op("Select", "conn_err"))]
        \/ LET e == QueryRowScan(Visible(p, call[p].tableName), selectValues)
           IN  /\ err' = [err EXCEPT ![p] = e]
               /\ ops' = [ops EXCEPT ![p] = Append(@, Op("Select", e))]
  /\ pc' = [pc EXCEPT ![p] = AfterCheck(err'[p])]
  /\ UNCHANGED <<defaultValues, heap, defaultRelationValues, db, call, values, tx,
                 pending, report, pre, last, ncalls>>

\* Mutant: the transactional insert carries ON CONFLICT DO NOTHING too.
TxInsertOnConflictDoNothing(rows, row) ==
  [err |-> "nil", added |-> ~Conflicts(rows, row)]

\* Mutant: the table has no unique constraint, every insert adds its row.
TxInsertNoConstraint(rows, row) == [err |-> "nil", added |-> TRUE]

\* What the INSERT does inside the transaction: the unique constraint rejects a
\* second row with the same key.
TxInsert(rows, row) ==
  IF Conflicts(rows, row) THEN [err |-> "unique_violation", added |-> FALSE]
  ELSE [err |-> "nil", added |-> TRUE]

\* Mutant: a failed insert ends the call without the rollback.
AfterInsertNoRollback(e) == IF e # "nil" THEN "fatal" ELSE "commit"

\* if err != nil { dbMan.rollback(tx); Fatalf } ... dbMan.commit(tx)
AfterInsert(e) == IF e # "nil" THEN "rollback_insert" ELSE "commit"

\* builder.ToSql(); tx.Query(q, vs...)
insert(p) ==
  /\ pc[p] = "insert"
  /\ LET t   == call[p].tableName
         row == InsertedRow(ValuesOf(p))
     IN \/ /\ err' = [err EXCEPT ![p] = "build_err"]
           /\ pc' = [pc EXCEPT ![p] = "rollback_tosql"]
           /\ UNCHANGED <<ops, pending>>
        \/ /\ err' = [err EXCEPT ![p] = "conn_err"]
           /\ ops' = [ops EXCEPT ![p] = Append(@, Op("Insert", "conn_err"))]
           /\ pc' = [pc EXCEPT ![p] = AfterInsert("conn_err")]
           /\ UNCHANGED pending
        \/ /\ ~Blocked(p, t, row)
           /\ LET r == TxInsert(Visible(p, t), row)
              IN  /\ err' = [err EXCEPT ![p] = r.err]
                  /\ ops' = [ops EXCEPT ![p] = Append(@, Op("Insert", r.err))]
                  /\ pending' = [pending EXCEPT ![p] =
                                   IF r.added THEN Append(@, <<t, row>>) ELSE @]
                  /\ pc' = [pc EXCEPT ![p] = AfterInsert(r.err)]
  /\ UNCHANGED <<defaultValues, heap, defaultRelationValues, db, call, values, tx,
                 report, pre, last, ncalls>>

\* dbMan.commit(tx): a failed commit leaves nothing behind
commit(p) ==
  /\ pc[p] = "commit"
  /\ \E e \in {"nil", "conn_err"} :
       /\ ops' = [ops EXCEPT ![p] = Append(@, Op("Commit", e))]
       /\ IF e = "nil"
          THEN /\ db' = AddAll(db, pending[p])
               /\ tx' = [tx EXCEPT ![p] = "committed"]
               /\ pc' = [pc EXCEPT ![p] = "done"]
               /\ UNCHANGED report
          ELSE /\ tx' = [tx EXCEPT ![p] = "broken"]
               /\ pc' = [pc EXCEPT ![p] = "fatal"]
               /\ report' = [report EXCEPT ![p] =
                    Fatal("Test setup failed: could not commit transaction: %s", <<e>>)]
               /\ UNCHANGED db
  /\ pending' = [pending EXCEPT ![p] = <<>>]
  /\ UNCHANGED <<defaultValues, heap, defaultRelationValues, call, values, err, pre,
                 last, ncalls>>

\* The t.Fatalf that follows each dbMan.rollback(tx) in ResolveTestRecord.
FatalAfterRollback(site, tableName, e) ==
  CASE site = "rollback_tosql" ->
         Fatal("Test setup failed: could not generate sql string for '%s': %+v",
               <<tableName, e>>)
    [] site = "rollback_insert" ->
         Fatal("Test setup failed: could not create test record for '%s': %s",
               <<tableName, e>>)
    [] OTHER -> Fatal("failed during checkIfExisting %s", <<e>>)

\* dbMan.rollback(tx), then the caller's t.Fatalf
rollback(p) ==
  /\ pc[p] \in {"rollback_check", "rollback_tosql", "rollback_insert"}
  /\ \E e \in {"nil", "conn_err"} :
       /\ ops' = [ops EXCEPT ![p] = Append(@, Op("Rollback", e))]
       /\ IF e = "nil"
          THEN /\ tx' = [tx EXCEPT ![p] = "rolledback"]
               /\ report' = [report EXCEPT ![p] =
                    FatalAfterRollback(pc[p], call[p].tableName, err[p])]
          ELSE /\ tx' = [tx EXCEPT ![p] = "broken"]
               /\ report' = [report EXCEPT ![p] =
                    Fatal("Test setup failed: failed to rollback: %s", <<e>>)]
  /\ pending' = [pending EXCEPT ![p] = <<>>]
  /\ pc' = [pc EXCEPT ![p] = "fatal"]
  /\ UNCHANGED <<defaultValues, heap, defaultRelationValues, db, call, values, err, pre,
                 last, ncalls>>

\* Mutant: ON CONFLICT (id) DO UPDATE, the row of the key is replaced.
OnConflictDoUpdate(rows, row) ==
  IF Conflicts(rows, row)
  THEN SetToBag({r \in BagToSet(rows) : r[UniqueColumn] # row[UniqueColumn]} \cup {row})
  ELSE rows (+) SetToBag({row})

\* What INSERT ... ON CONFLICT DO NOTHING does to the rows of a table.
OnConflictDoNothing(rows, row) ==
  IF Conflicts(rows, row) THEN rows ELSE rows (+) SetToBag({row})

\* insertBuilder(tableName).SetMap(sq.Eq(values)).Suffix("ON CONFLICT DO NOTHING").Query()
CreateStatement(p) ==
  /\ LET t   == call[p].tableName
         row == InsertedRow(ValuesOf(p))
     IN \/ \E e \in {"build_err", "conn_err"} :
             /\ err' = [err EXCEPT ![p] = e]
             /\ ops' = [ops EXCEPT ![p] =
                  IF e = "build_err" THEN @ ELSE Append(@, Op("Insert", e))]
             /\ pc' = [pc EXCEPT ![p] = "fatal"]
             /\ report' = [report EXCEPT ![p] =
                  Fatal("Test setup failed: could not create test record for '%s': %+v",
                        <<t, e>>)]
             /\ UNCHANGED db
        \/ /\ ~Blocked(p, t, row)
           /\ err' = [err EXCEPT ![p] = "nil"]
           /\ ops' = [ops EXCEPT ![p] = Append(@, Op("Insert",
                        IF Conflicts(db[t], row) THEN "conflict" ELSE "nil"))]
           /\ db' = [db EXCEPT ![t] = OnConflictDoNothing(@, row)]
           /\ pc' = [pc EXCEPT ![p] = "done"]
           /\ UNCHANGED report
  /\ call' = [call EXCEPT ![p].opts = <<>>]
  /\ UNCHANGED <<defaultValues, heap, defaultRelationValues, values, tx, pending,
                 pre, last, ncalls>>

CreateQuery(p) == pc[p] = "create" /\ CreateStatement(p)

\* Mutant: the statement is sent without the ON CONFLICT DO NOTHING suffix.
ResolveQueryResultNoSuffix(rows, row) ==
  IF Conflicts(rows, row) THEN [res |-> "unique_violation", rows |-> rows]
  ELSE [res |-> "nil", rows |-> rows (+) SetToBag({row})]

\* What the statement of dbmanager.ResolveTestRecord gives when the database
\* runs it: a row whose key exists is skipped without an error.
ResolveQueryResult(rows, row) ==
  IF Conflicts(rows, row) THEN [res |-> "conflict", rows |-> rows]
  ELSE [res |-> "nil", rows |-> rows (+) SetToBag({row})]

\* _, err := dbMan.insertBuilder(tableName).SetMap(sq.Eq(values)).
\*             Suffix("ON CONFLICT DO NOTHING").Query()
\* if err != nil { dbMan.t.Fatalf(...) }
ResolveStatement(p) ==
  /\ LET t       == call[p].tableName
         row     == InsertedRow(ValuesOf(p))
         failed  == {[res |-> e, rows |-> db[t]] : e \in {"build_err", "conn_err"}}
         ran     == IF Blocked(p, t, row) THEN {} ELSE {ResolveQueryResult(db[t], row)}
     IN \E r \in failed \cup ran :
          LET e == IF r.res \in {"nil", "conflict"} THEN "nil" ELSE r.res
          IN  /\ err' = [err EXCEPT ![p] = e]
              /\ ops' = [ops EXCEPT ![p] =
                   IF r.res = "build_err" THEN @ ELSE Append(@, Op("Insert", r.res))]
              /\ db' = [db EXCEPT ![t] = r.rows]
              /\ pc' = [pc EXCEPT ![p] = IF e # "nil" THEN "fatal" ELSE "done"]
              /\ report' = [report EXCEPT ![p] =
                   IF e # "nil"
                   THEN Fatal("Test setup failed: could not create test record for '%s': %+v",
                              <<t, e>>)
                   ELSE @]
  /\ call' = [call EXCEPT ![p].opts = <<>>]
  /\ UNCHANGED <<defaultValues, heap, defaultRelationValues, values, tx, pending,
                 pre, last, ncalls>>

ResolveInsert(p) == pc[p] = "resolve" /\ ResolveStatement(p)

\* A database or statement-builder failure happened in caller p's call.
EnvFailed(p) ==
  \/ err[p] \in {"build_err", "conn_err"}
  \/ \E i \in 1..Len(ops[p]) : ops[p][i].res = "conn_err"

Inserted(p) == \E i \in 1..Len(ops[p]) : ops[p][i] = Op("Insert", "nil")

\* The call is over (it returned, or t.Fatalf ended the test): its locals are
\* gone, and the caller remembers what it asked for and how it ended.
Return(p) ==
  /\ pc[p] \in {"done", "fatal"}
  /\ last' = [last EXCEPT ![p] =
       [op |-> call[p].op, tableName |-> call[p].tableName, values |-> ValuesOf(p),
        outcome |-> pc[p], inserted |-> Inserted(p), envFailed |-> EnvFailed(p)]]
  /\ pc' = [pc EXCEPT ![p] = "idle"]
  /\ call' = [call EXCEPT ![p] = NoCall]
  /\ values' = [values EXCEPT ![p] = NoAddr]
  /\ heap' = [a \in DOMAIN heap \ {CallAddr(p)} |-> heap[a]]
  /\ tx' = [tx EXCEPT ![p] = "none"]
  /\ err' = [err EXCEPT ![p] = "nil"]
  /\ ops' = [ops EXCEPT ![p] = <<>>]
  /\ report' = [report EXCEPT ![p] = NoReport]
  /\ pre' = [pre EXCEPT ![p] = db]
  /\ UNCHANGED <<defaultValues, defaultRelationValues, db, pending, ncalls>>

\* ---------------------------------------------------------- specifications
\* New(db, t, defaultValues): the manager keeps the caller's maps.
Init ==
  /\ defaultValues \in DefaultTables
  /\ defaultRelationValues = [r \in DOMAIN defaultValues |-> DefaultAddr(r)]
  /\ heap = [a \in {DefaultAddr(r) : r \in DOMAIN defaultValues} |-> defaultValues[a[2]]]
  /\ \E users \in InitialUsers :
       db = [t \in Tables |-> IF t = "users" THEN users ELSE EmptyBag]
  /\ pc = [p \in Procs |-> "idle"]
  /\ call = [p \in Procs |-> NoCall]
  /\ values = [p \in Procs |-> NoAddr]
  /\ tx = [p \in Procs |-> "none"]
  /\ pending = [p \in Procs |-> <<>>]
  /\ err = [p \in Procs |-> "nil"]
  /\ ops = [p \in Procs |-> <<>>]
  /\ report = [p \in Procs |-> NoReport]
  /\ pre = [p \in Procs |-> db]
  /\ last = [p \in Procs |-> NoLast]
  /\ ncalls = [p \in Procs |-> 0]

Step(p) ==
  \/ \E t \in Tables, opts \in OptSeqs : ResolveTestRecord(p, t, opts)
  \/ \E t \in Tables, opts \in OptSeqs : Create(p, t, opts)
  \/ \E t \in Tables, opts \in OptSeqs : dbmanagerResolveTestRecord(p, t, opts)
  \/ relationValues(p)
  \/ Begin(p)
  \/ checkIfExisting(p)
  \/ insert(p)
  \/ commit(p)
  \/ rollback(p)
  \/ CreateQuery(p)
  \/ ResolveInsert(p)
  \/ Return(p)

\* One test at a time: each call runs to its end before the next starts.
Next == Step(Main)

Spec == Init /\ [][Next]_vars

\* A test that makes transactional calls only; the test goroutine keeps
\* running and every database call returns.
NextResolve ==
  \/ \E t \in Tables, opts \in OptSeqs : ResolveTestRecord(Main, t, opts)
  \/ relationValues(Main)
  \/ Begin(Main)
  \/ checkIfExisting(Main)
  \/ insert(Main)
  \/ commit(Main)
  \/ rollback(Main)
  \/ Return(Main)

SpecFair == Init /\ [][NextResolve]_vars /\ WF_vars(NextResolve)

\* Two tests sharing one manager and one database, one call each.
ConcOptSeqs == SeqsUpTo(Options, MaxConcOpts)

NextConc ==
  \E p \in Procs :
    \/ \E t \in Tables, opts \in ConcOptSeqs :
         ncalls[p] = 0 /\ ResolveTestRecord(p, t, opts)
    \/ \E t \in Tables, opts \in ConcOptSeqs :
         ncalls[p] = 0 /\ Create(p, t, opts)
    \/ relationValues(p)
    \/ Begin(p)
    \/ checkIfExisting(p)
    \/ insert(p)
    \/ commit(p)
    \/ rollback(p)
    \/ CreateQuery(p)

SpecConc == Init /\ [][NextConc]_vars

\* ------------------------------------------------------------------ claims
Ended(p)     == pc[p] \in {"done", "fatal"}
IsResolve(p) == call[p].op = "ResolveTestRecord"
IsCreate(p)  == call[p].op = "Create"
Known(p)     == call[p].tableName \in DOMAIN defaultValues
Resolved(p)  == pc[p] \notin {"idle", "opts"} /\ Known(p)
Count(p, name) == Cardinality({i \in 1..Len(ops[p]) : ops[p][i].op = name})

\* Row r carries the value of every literal field of vals.
RowAgrees(r, vals) == \A k \in DOMAIN vals : vals[k][1] = "expr" \/ r[k] = vals[k][2]

\* How many rows of the bag agree with vals.
Matching(rows, vals) ==
  BagCardinality([r \in {x \in BagToSet(rows) : RowAgrees(x, vals)} |-> rows[r]])

MatchingNow(p)    == Matching(db[call[p].tableName], ValuesOf(p))
MatchingBefore(p) == Matching(pre[p][call[p].tableName], ValuesOf(p))

FoundPath == <<Op("Begin", "nil"), Op("Select", "nil"), Op("Commit", "nil")>>

\* This call and the caller's previous one are transactional resolutions of the
\* same relation with equal resolved values.
SameAsLast(p) ==
  /\ IsResolve(p) /\ Resolved(p)
  /\ last[p].op = "ResolveTestRecord"
  /\ last[p].tableName = call[p].tableName
  /\ last[p].values = ValuesOf(p)

\* C1 as stated: from any database state, two successive transactional
\* resolutions with the same relation and equal resolved values (the database
\* and the statement builder never failing) leave exactly one matching row, the
\* second takes the found path without inserting, and neither ends fatally.
C1_Original ==
  \A p \in Procs :
    (SameAsLast(p) /\ Ended(p) /\ ~EnvFailed(p) /\ ~last[p].envFailed) =>
      /\ MatchingNow(p) = 1
      /\ ops[p] = FoundPath
      /\ pc[p] = "done"
      /\ last[p].outcome = "done"

\* C1 amended: when the first of two such calls returned without a fatal error,
\* the second never inserts and leaves the rows as they were; at least one row
\* matches, exactly one when the first call inserted it; the second call takes
\* the found path unless the database fails it.
C1_Idempotent ==
  \A p \in Procs :
    (SameAsLast(p) /\ last[p].outcome = "done") =>
      /\ Count(p, "Insert") = 0
      /\ pc[p] \notin {"insert", "rollback_tosql", "rollback_insert"}
      /\ db = pre[p]
      /\ MatchingNow(p) >= 1
      /\ last[p].inserted => MatchingNow(p) = 1
      /\ pc[p] = "done" => ops[p] = FoundPath
      /\ pc[p] = "fatal" => EnvFailed(p)

C1_Witness ==
  \E p \in Procs :
    /\ SameAsLast(p) /\ last[p].outcome = "done" /\ last[p].inserted
    /\ pc[p] = "done" /\ ops[p] = FoundPath /\ MatchingNow(p) = 1

\* C2 as stated: a transactional resolution that returns without a fatal error
\* leaves exactly one row matching the resolved values, and it inserted only
\* if none matched before.
C2_Original ==
  \A p \in Procs :
    (IsResolve(p) /\ pc[p] = "done") =>
      /\ MatchingNow(p) = 1
      /\ Inserted(p) => MatchingBefore(p) = 0

\* C2 amended: a transactional resolution that returns without a fatal error
\* leaves at least one matching row; it inserted only if none matched before,
\* and then exactly one row matches; otherwise the database is as it was.
C2_Postcondition ==
  \A p \in Procs :
    (IsResolve(p) /\ pc[p] = "done") =>
      /\ MatchingNow(p) >= 1
      /\ Inserted(p) => (MatchingBefore(p) = 0 /\ MatchingNow(p) = 1)
      /\ ~Inserted(p) => (MatchingBefore(p) >= 1 /\ db = pre[p])

C2_Witness ==
  \E p \in Procs :
    /\ IsResolve(p) /\ pc[p] = "done" /\ Inserted(p) /\ MatchingNow(p) = 1
    /\ last[p].outcome = "done" /\ ~last[p].inserted

UnknownRelationFatal(p) ==
  /\ pc[p] = "fatal"
  /\ report[p] = Fatal("no default values for relation '%s'", <<call[p].tableName>>)
  /\ ops[p] = <<>>
  /\ tx[p] = "none"
  /\ db = pre[p]

\* C3: a call (ResolveTestRecord or Create) naming a relation that is no key
\* of the Default Value Table is fatal and touches the database not at all:
\* no Begin, no select, no insert.
C3_UnknownRelation ==
  \A p \in Procs :
    (call[p].op # "none" /\ ~Known(p)) => UnknownRelationFatal(p)

C3_Witness ==
  \E p \in Procs :
    /\ IsResolve(p) /\ ~Known(p) /\ UnknownRelationFatal(p)
    /\ last[p].op = "Create" /\ last[p].tableName \notin DOMAIN defaultValues
    /\ last[p].outcome = "fatal"

BeginOK(p) == \E i \in 1..Len(ops[p]) : ops[p][i] = Op("Begin", "nil")
Closings(p) == Count(p, "Commit") + Count(p, "Rollback")
RowsAdded(p) ==
  BagCardinality(db[call[p].tableName]) - BagCardinality(pre[p][call[p].tableName])

\* C4 as stated: every transactional resolution, on every path including the
\* fatal ones, opens exactly one transaction, closes it by a successful commit
\* or rollback before it ends, and inserts at most one row.
C4_Original ==
  \A p \in Procs :
    (IsResolve(p) /\ Ended(p)) =>
      /\ Count(p, "Begin") = 1 /\ BeginOK(p)
      /\ tx[p] \in {"committed", "rolledback"}
      /\ RowsAdded(p) <= 1

\* C4 amended: a transactional resolution calls Begin at most once (exactly
\* once when the relation is known) and opens no transaction when the relation
\* is unknown or Begin fails; a transaction that was opened is ended by exactly
\* one Commit or Rollback before the call ends, which closes it unless that
\* Commit or Rollback itself fails; at most one row is inserted.
C4_Transaction ==
  \A p \in Procs :
    IsResolve(p) =>
      /\ Count(p, "Begin") <= 1 /\ Count(p, "Insert") <= 1 /\ Closings(p) <= 1
      /\ RowsAdded(p) \in {0, 1}
      /\ (tx[p] = "none") <=> ~BeginOK(p)
      /\ (tx[p] = "committed") <=> (Op("Commit", "nil") \in {ops[p][i] : i \in 1..Len(ops[p])})
      /\ (tx[p] = "rolledback") <=> (Op("Rollback", "nil") \in {ops[p][i] : i \in 1..Len(ops[p])})
      /\ Ended(p) =>
           /\ Count(p, "Begin") = (IF Known(p) THEN 1 ELSE 0)
           /\ BeginOK(p) => (Closings(p) = 1 /\ tx[p] \in {"committed", "rolledback", "broken"})
           /\ ~BeginOK(p) => (pc[p] = "fatal" /\ Len(ops[p]) <= 1)
           /\ (tx[p] = "broken") =>
                (ops[p][Len(ops[p])].op \in {"Commit", "Rollback"}
                   /\ ops[p][Len(ops[p])].res = "conn_err")

C4_Witness ==
  \E p \in Procs :
    /\ IsResolve(p) /\ pc[p] = "fatal" /\ tx[p] = "rolledback" /\ Closings(p) = 1
    /\ last[p].op = "ResolveTestRecord" /\ last[p].inserted /\ last[p].outcome = "done"

\* C5: the Default Value Table always equals the table supplied at
\* construction, whatever overrides the calls carried, and a call without
\* overrides resolves to the stored defaults (in a map of its own).
C5_DefaultsInvariant ==
  /\ StoredDefaults = defaultValues
  /\ \A p \in Procs :
       (pc[p] \in {"begin", "create"} /\ call[p].opts = <<>>) =>
         /\ ValuesOf(p) = StoredDefaults[call[p].tableName]
         /\ values[p] \notin {defaultRelationValues[r] : r \in DOMAIN defaultRelationValues}

\* After a call whose overrides added a key and replaced a value, a call
\* without overrides resolves to the untouched defaults.
C5_Witness ==
  \E p \in Procs :
    /\ pc[p] \in {"begin", "create"} /\ call[p].opts = <<>>
    /\ ValuesOf(p) = defaultValues[call[p].tableName]
    /\ last[p].tableName = call[p].tableName
    /\ "id" \in DOMAIN last[p].values \ DOMAIN defaultValues[call[p].tableName]
    /\ last[p].values["name"] # defaultValues[call[p].tableName]["name"]

Named(opts, k) == {i \in 1..Len(opts) : opts[i][1] = k}
Max(S) == CHOOSE i \in S : \A j \in S : j <= i

\* Defaults d overridden by opts: the last override naming a field wins.
Expected(d, opts) ==
  [k \in DOMAIN d \cup {opts[i][1] : i \in 1..Len(opts)} |->
     IF Named(opts, k) = {} THEN d[k] ELSE opts[Max(Named(opts, k))][2]]

\* C6: the Resolved Value Set maps each field to the value of the last
\* override naming it, to the default when none names it, and holds the
\* fields only overrides name.
C6_LastOverrideWins ==
  \A p \in Procs :
    pc[p] \in {"begin", "create"} =>
      ValuesOf(p) = Expected(defaultValues[call[p].tableName], call[p].opts)

C6_Witness ==
  \E p \in Procs :
    /\ pc[p] \in {"begin", "create"} /\ Len(call[p].opts) = 2
    /\ call[p].opts[1][1] = call[p].opts[2][1]
    /\ call[p].opts[1][2] # call[p].opts[2][2]
    /\ call[p].opts[1][1] \in DOMAIN defaultValues[call[p].tableName]
    /\ ValuesOf(p)[call[p].opts[1][1]] = call[p].opts[2][2]

\* Row r holds the literal key of vals and differs from vals on another
\* literal field.
CollidesWith(r, vals) ==
  /\ UniqueColumn \in DOMAIN vals
  /\ vals[UniqueColumn][1] = "lit"
  /\ r[UniqueColumn] = vals[UniqueColumn][2]
  /\ \E k \in DOMAIN vals \ {UniqueColumn} : vals[k][1] = "lit" /\ r[k] # vals[k][2]

Collides(p) ==
  /\ Resolved(p)
  /\ \E r \in BagToSet(pre[p][call[p].tableName]) : CollidesWith(r, ValuesOf(p))

KeyExists(p) ==
  /\ Resolved(p)
  /\ UniqueColumn \in DOMAIN ValuesOf(p)
  /\ ValuesOf(p)[UniqueColumn][1] = "lit"
  /\ \E r \in BagToSet(pre[p][call[p].tableName]) :
       r[UniqueColumn] = ValuesOf(p)[UniqueColumn][2]

UniqueKeys(rows) ==
  \A r \in BagToSet(rows) :
    r[UniqueColumn] # Null =>
      /\ CopiesIn(r, rows) = 1
      /\ \A x \in BagToSet(rows) : x[UniqueColumn] = r[UniqueColumn] => x = r

\* C8: Create runs no existence check and opens no transaction; when a row
\* with its key exists, with equal or different other fields, it succeeds
\* (unless the statement fails otherwise) and changes nothing; a relation
\* holds at most one row per key and a keyed row stays as first inserted; a
\* Create is fatal only for an unknown relation or a failed statement.
C8_Create ==
  \A p \in Procs :
    IsCreate(p) =>
      /\ Count(p, "Begin") + Count(p, "Select") + Closings(p) = 0
      /\ tx[p] = "none"
      /\ Count(p, "Insert") <= 1
      /\ \A t \in Tables : UniqueKeys(db[t])
      /\ \A r \in BagToSet(pre[p][call[p].tableName]) :
           r[UniqueColumn] # Null => r \in BagToSet(db[call[p].tableName])
      /\ KeyExists(p) =>
           /\ db = pre[p]
           /\ (Ended(p) /\ ~EnvFailed(p)) => (pc[p] = "done" /\ report[p] = NoReport)
      /\ pc[p] = "fatal" => (db = pre[p] /\ (~Known(p) \/ EnvFailed(p)))

C8_Witness ==
  \E p \in Procs :
    /\ IsCreate(p) /\ pc[p] = "done" /\ KeyExists(p) /\ Collides(p)
    /\ ops[p] = <<Op("Insert", "conflict")>> /\ db = pre[p]

\* C9: with calls interleaved on one manager the Default Value Table is never
\* written, each call resolves to what it would resolve alone, and its
\* resolved values stay as computed whatever the other call does.
C9_ConcurrentSafe ==
  /\ [](/\ StoredDefaults = defaultValues
        /\ \A p \in Procs :
             pc[p] \in {"begin", "create"} =>
               ValuesOf(p) = Expected(defaultValues[call[p].tableName], call[p].opts))
  /\ [][\A p \in Procs :
          (pc[p] \notin {"idle", "opts", "fatal"} /\ values[p] # NoAddr)
            => ValuesOf(p)' = ValuesOf(p)]_vars

C9_Witness ==
  /\ \A p \in Procs : pc[p] \in {"begin", "create"} /\ call[p].opts # <<>>
  /\ \A p, q \in Procs :
       p # q => (call[p].tableName = call[q].tableName /\ ValuesOf(p) # ValuesOf(q))

AfterSelect(p) ==
  /\ Len(ops[p]) > 0
  /\ ops[p][Len(ops[p])].op = "Select"
  /\ ops[p][Len(ops[p])].res \in {"nil", "ErrNoRows"}

\* C10: the existence check reports 'found' exactly when some row equals the
\* resolved values on every field that is not an expression; expression
\* fields play no part, and the check changes no row.
C10_ExistenceCheck ==
  \A p \in Procs :
    (IsResolve(p) /\ AfterSelect(p)) =>
      /\ (ops[p][Len(ops[p])].res = "nil") <=>
           (\E r \in BagToSet(pre[p][call[p].tableName]) : RowAgrees(r, ValuesOf(p)))
      /\ db = pre[p]
      /\ pending[p] = <<>>

\* Found although the stored value of an expression field is not what the
\* expression would give now.
C10_Witness ==
  \E p \in Procs :
    /\ IsResolve(p) /\ AfterSelect(p) /\ ops[p][Len(ops[p])].res = "nil"
    /\ \E k \in DOMAIN ValuesOf(p) :
         /\ ValuesOf(p)[k][1] = "expr"
         /\ \A r \in BagToSet(db[call[p].tableName]) : r[k] # Eval(ValuesOf(p)[k])
\* The row carries every field of vals: a literal as given, an expression as
\* the database evaluates it, and NULL in the columns vals does not name.
Carries(row, vals) ==
  \A c \in Columns :
    IF c \notin DOMAIN vals THEN row[c] = Null
    ELSE IF IsSqlizer(vals[c]) THEN row[c] = Eval(vals[c]) /\ row[c] # Null
    ELSE row[c] = vals[c][2]

CreationPath ==
  <<Op("Begin", "nil"), Op("Select", "ErrNoRows"), Op("Insert", "nil"),
    Op("Commit", "nil")>>

\* C11: in a transactional resolution the insert is executed only directly
\* after the check reported 'no matching row'; when it succeeds it writes
\* exactly one row carrying every field of the resolved values, expression
\* fields included, which stays invisible until the commit that follows; once
\* the call has returned, the relation holds its former rows plus that one row
\* and no other relation changed.
C11_CreationPath ==
  \A p \in Procs :
    IsResolve(p) =>
      /\ \A i \in 1..Len(ops[p]) :
           ops[p][i].op = "Insert" =>
             i > 1 /\ ops[p][i-1] = Op("Select", "ErrNoRows")
      /\ pc[p] = "insert" => ops[p][Len(ops[p])] = Op("Select", "ErrNoRows")
      /\ Inserted(p) =>
           /\ pc[p] \in {"commit", "done", "fatal"}
           /\ pc[p] = "commit" =>
                /\ db = pre[p]
                /\ Len(pending[p]) = 1
                /\ pending[p][1][1] = call[p].tableName
                /\ Carries(pending[p][1][2], ValuesOf(p))
           /\ pc[p] = "done" =>
                /\ ops[p] = CreationPath
                /\ \E row \in BagToSet(db[call[p].tableName]) :
                     /\ Carries(row, ValuesOf(p))
                     /\ db[call[p].tableName] =
                          pre[p][call[p].tableName] (+) SetToBag({row})
                /\ \A t \in DOMAIN db \ {call[p].tableName} : db[t] = pre[p][t]

C11_Witness ==
  \E p \in Procs :
    /\ IsResolve(p) /\ pc[p] = "done" /\ ops[p] = CreationPath
    /\ \E c \in DOMAIN ValuesOf(p) : IsSqlizer(ValuesOf(p)[c])
    /\ \E row \in BagToSet(db[call[p].tableName]) :
         /\ row \notin BagToSet(pre[p][call[p].tableName])
         /\ row["created_at"] = Now
\* The existence check of caller p's call reported a matching row.
Found(p) == \E i \in 1..Len(ops[p]) : ops[p][i] = Op("Select", "nil")

\* C12: once the check of a transactional resolution has reported a matching
\* row, the call executes no insert and no rollback, writes nothing, goes on to
\* the commit and to nothing else, and every relation holds exactly the rows it
\* held when the call began.
C12_FoundPath ==
  \A p \in Procs :
    (IsResolve(p) /\ Found(p)) =>
      /\ Count(p, "Insert") = 0
      /\ Count(p, "Rollback") = 0
      /\ pending[p] = <<>>
      /\ db = pre[p]
      /\ pc[p] \in {"commit", "done", "fatal"}
      /\ pc[p] = "commit" => ops[p] = SubSeq(FoundPath, 1, 2) /\ tx[p] = "open"
      /\ pc[p] = "done" => ops[p] = FoundPath /\ tx[p] = "committed"
      /\ pc[p] = "fatal" =>
           ops[p] = SubSeq(FoundPath, 1, 2) \o <<Op("Commit", "conn_err")>>

C12_Witness ==
  \E p \in Procs :
    /\ IsResolve(p) /\ pc[p] = "done" /\ ops[p] = FoundPath
    /\ MatchingBefore(p) >= 1
    /\ db = pre[p]

\* The check failed for a reason other than 'no rows', or building or
\* executing the insert failed.
StatementFailed(p) ==
  /\ BeginOK(p)
  /\ err[p] \in {"build_err", "conn_err", "unique_violation"}

RollbackSites == {"rollback_check", "rollback_tosql", "rollback_insert"}

\* C13: when the existence check fails for a reason other than 'no rows', or
\* building or executing the insert fails, the call never commits, nothing is
\* reported as fatal before the rollback has been executed, the rollback is
\* executed exactly once, and every relation holds the rows it held when the
\* call began.
C13_ErrorLeavesStateUnchanged ==
  \A p \in Procs :
    (IsResolve(p) /\ StatementFailed(p)) =>
      /\ Count(p, "Commit") = 0
      /\ db = pre[p]
      /\ pc[p] \in RollbackSites \cup {"fatal"}
      /\ pc[p] \in RollbackSites =>
           /\ report[p] = NoReport
           /\ Count(p, "Rollback") = 0
           /\ tx[p] = "open"
      /\ pc[p] = "fatal" =>
           /\ report[p] # NoReport
           /\ Count(p, "Rollback") = 1
           /\ ops[p][Len(ops[p])].op = "Rollback"
           /\ tx[p] \in {"rolledback", "broken"}
           /\ pending[p] = <<>>

C13_Witness ==
  \E p \in Procs :
    /\ IsResolve(p) /\ StatementFailed(p) /\ pc[p] = "fatal"
    /\ tx[p] = "rolledback"
    /\ \E i \in 1..Len(ops[p]) : ops[p][i] = Op("Insert", "unique_violation")
    /\ db = pre[p]
\* C14 as stated: whenever a transactional resolution ends fatally because the
\* existence check or the insert failed (and the rollback itself succeeded),
\* the fatal report carries both the relation name and the underlying error.
C14_Original ==
  \A p \in Procs :
    (IsResolve(p) /\ StatementFailed(p) /\ pc[p] = "fatal"
       /\ tx[p] = "rolledback") =>
      /\ \E i \in 1..Len(report[p].args) : report[p].args[i] = call[p].tableName
      /\ \E i \in 1..Len(report[p].args) : report[p].args[i] = err[p]

\* The transaction of caller p's call could not be started.
BeginFailed(p) == \E i \in 1..Len(ops[p]) : ops[p][i] = Op("Begin", "conn_err")

\* C15: when the transaction cannot be started, the call has ended fatally
\* with the report of that error, and Begin is the only database operation it
\* ever executed: no check, no insert, no commit, no rollback, no transaction
\* left open and no relation changed.
C15_TxStartError ==
  \A p \in Procs :
    (IsResolve(p) /\ BeginFailed(p)) =>
      /\ pc[p] = "fatal"
      /\ ops[p] = <<Op("Begin", "conn_err")>>
      /\ report[p] =
           Fatal("Test setup failed: could not start transaction: %s", <<"conn_err">>)
      /\ tx[p] = "none"
      /\ pending[p] = <<>>
      /\ db = pre[p]

C15_Witness ==
  \E p \in Procs :
    /\ IsResolve(p) /\ BeginFailed(p) /\ pc[p] = "fatal"
    /\ db[call[p].tableName] # EmptyBag
\* Position of a database operation, and of a step of the call, in the order
\* Start, TransactionOpen, check, insert, commit or rollback, Done or Fatal.
OpRank(name) ==
  CASE name = "Begin"  -> 1
    [] name = "Select" -> 2
    [] name = "Insert" -> 3
    [] OTHER           -> 4

PcRank(l) ==
  CASE l = "idle"                -> 0
    [] l = "opts"                -> 1
    [] l = "begin"               -> 2
    [] l = "check"               -> 3
    [] l = "insert"              -> 4
    [] l \in {"done", "fatal"}   -> 6
    [] OTHER                     -> 5

InCall(p) == pc[p] \notin {"idle", "done", "fatal"}

\* The operations executed so far are in the order of the state machine; the
\* commit and the rollback share one position, so each operation is executed
\* at most once and never both a commit and a rollback.
C16_Trace ==
  \A p \in Procs :
    IsResolve(p) =>
      /\ \A i, j \in 1..Len(ops[p]) :
           i < j => OpRank(ops[p][i].op) < OpRank(ops[p][j].op)
      /\ ops[p] # <<>> => ops[p][1].op = "Begin"
      /\ \A i \in 1..Len(ops[p]) :
           (i < Len(ops[p]) /\ ops[p][i].op \in {"Begin", "Select"})
             => ops[p][i].res # "conn_err" \/ ops[p][i+1].op = "Rollback"
      /\ (pc[p] = "fatal") <=> (report[p] # NoReport)
      /\ pc[p] = "done" => ops[p][Len(ops[p])] = Op("Commit", "nil")
      /\ (pc[p] = "fatal" /\ Known(p)) => ops[p][Len(ops[p])].res # "nil"
                                           \/ ops[p][Len(ops[p])].op = "Rollback"

\* A step of the call moves it forward in the state machine and executes at
\* most one operation; once it is Done or Fatal nothing more is executed.
C16_Step ==
  \A p \in Procs :
    IsResolve(p) =>
      /\ (pc'[p] # pc[p] /\ pc'[p] # "idle") => PcRank(pc'[p]) > PcRank(pc[p])
      /\ ops'[p] # ops[p] =>
           \/ InCall(p) /\ Len(ops'[p]) = Len(ops[p]) + 1
                        /\ SubSeq(ops'[p], 1, Len(ops[p])) = ops[p]
           \/ Ended(p) /\ pc'[p] = "idle" /\ ops'[p] = <<>>
      /\ Ended(p) =>
           /\ db' = db /\ pending' = pending
           /\ pc'[p] \in {pc[p], "idle"}
           /\ pc'[p] = pc[p] => ops'[p] = ops[p] /\ tx'[p] = tx[p]
                                 /\ report'[p] = report[p]

\* C16: every transactional resolution follows the state machine and ends in
\* Done or Fatal: begin, check, insert, commit and rollback are each executed
\* at most once and in that order, nothing is retried, commit and rollback are
\* never both executed, and once a fatal error is signalled (also by a failing
\* rollback or commit) no database operation follows.
C16_StateMachine ==
  /\ [](C16_Trace)
  /\ [][C16_Step]_vars
  /\ (IsResolve(Main) /\ InCall(Main)) ~> Ended(Main)

C16_Witness ==
  \E p \in Procs :
    /\ IsResolve(p) /\ pc[p] = "fatal" /\ ncalls[p] = MaxCalls
    /\ ops[p] = <<Op("Begin", "nil"), Op("Select", "ErrNoRows"),
                  Op("Insert", "unique_violation"), Op("Rollback", "conn_err")>>
\* Callers p and q have both finished a transactional resolution of the same
\* relation with equal resolved values.
BothResolved(p, q) ==
  /\ p # q
  /\ IsResolve(p) /\ IsResolve(q)
  /\ Known(p) /\ Ended(p) /\ Ended(q)
  /\ call[p].tableName = call[q].tableName
  /\ ValuesOf(p) = ValuesOf(q)

\* The rows of the relation when the earlier of the two calls began.
RowsAtStart(p, q) ==
  LET t == call[p].tableName
  IN  IF BagCardinality(pre[p][t]) <= BagCardinality(pre[q][t])
      THEN pre[p][t] ELSE pre[q][t]

HasLiteralKey(vals) ==
  UniqueColumn \in DOMAIN vals /\ ~IsSqlizer(vals[UniqueColumn])

\* C17 as stated: after two concurrent transactional resolutions with equal
\* resolved values have both finished, at most one row of the relation matches
\* those values.
C17_Original ==
  \A p, q \in Procs :
    BothResolved(p, q) => MatchingNow(p) <= 1

\* C17 amended: each of the two calls inserts only if no matching row was
\* committed when it began, and at most one row; when the resolved values
\* carry a literal unique key the relation ends with at most one matching row
\* and at most one of the calls has inserted; without the key both may insert,
\* and up to two matching rows are added.
C17_Concurrent ==
  \A p, q \in Procs :
    BothResolved(p, q) =>
      LET t    == call[p].tableName
          vals == ValuesOf(p)
          n    == Cardinality({x \in {p, q} : Inserted(x) /\ pc[x] = "done"})
      IN  /\ Inserted(p) => Matching(pre[p][t], vals) = 0
          /\ Count(p, "Insert") <= 1
          /\ BagCardinality(db[t]) = BagCardinality(RowsAtStart(p, q)) + n
          /\ Matching(db[t], vals) = Matching(RowsAtStart(p, q), vals) + n
          /\ Matching(RowsAtStart(p, q), vals) >= 1 => n = 0
          /\ HasLiteralKey(vals) => n <= 1 /\ Matching(db[t], vals) <= 1

C17_Witness ==
  \E p, q \in Procs :
    /\ BothResolved(p, q)
    /\ HasLiteralKey(ValuesOf(p))
    /\ pc[p] = "done" /\ Inserted(p)
    /\ pc[q] = "fatal" /\ err[q] = "unique_violation"
    /\ pre[q] = pre[p]
    /\ MatchingNow(p) = 1
\* No field of vals has a literal value: vals is empty or all expressions.
NoLiteral(vals) == \A k \in DOMAIN vals : IsSqlizer(vals[k])

\* C18: when the resolved values of a transactional resolution have no
\* literal field, a check that returns reports 'found' exactly when the
\* relation holds any row at all, whatever its fields; the insert is reached
\* only when the relation is empty, and on a relation that holds a row the
\* call returns only by the found path.
C18_NoFilter ==
  \A p \in Procs :
    (IsResolve(p) /\ Resolved(p) /\ NoLiteral(ValuesOf(p))) =>
      LET rows == pre[p][call[p].tableName]
      IN  /\ \A i \in 1..Len(ops[p]) :
               ops[p][i].op = "Select" =>
                 /\ ops[p][i].res = "nil" => rows # EmptyBag
                 /\ ops[p][i].res = "ErrNoRows" => rows = EmptyBag
          /\ (pc[p] = "insert" \/ Count(p, "Insert") > 0) => rows = EmptyBag
          /\ (pc[p] = "done" /\ rows # EmptyBag) => ops[p] = FoundPath /\ db = pre[p]

C18_Witness ==
  \E p \in Procs :
    /\ IsResolve(p) /\ NoLiteral(ValuesOf(p)) /\ DOMAIN ValuesOf(p) # {}
    /\ pc[p] = "done" /\ ops[p] = FoundPath
    /\ \E r \in BagToSet(db[call[p].tableName]) : r["name"] = "Alice"
IsDbmanagerResolve(p) == call[p].op = "dbmanager.ResolveTestRecord"

\* C19: the statement step of Create and the statement step of the
\* non-transactional ResolveTestRecord are the same relation between the state
\* before and the state after: whatever one of them does from a state with
\* given defaults, relation name, resolved values and database content (row
\* added, row skipped on a key conflict, or the fatal report of a failure),
\* the other can do from that state too, and nothing else. The steps before
\* it, the lookup of the defaults and the overrides, are one code for both.
C19_Step ==
  \A p \in Procs :
    /\ CreateQuery(p) => ResolveStatement(p)
    /\ ResolveInsert(p) => CreateStatement(p)

====
